---- MODULE Spec2Model ----
(***************************************************************************)
(* Model of the fake PBCS job service (src/fake_pbcs_server.py), of the    *)
(* tool gateway in front of it (src/pbcs_copilot_mcp.py) and of the        *)
(* FastMCP gateway (src/pbcs_copilot_mcp_fastmcp.py).                      *)
(*                                                                         *)
(* Spec      every HTTP handler runs to completion before the next one     *)
(*           starts (requests arrive one at a time).                       *)
(* SpecGw    the same server behind the gateway: every request is a call   *)
(*           of a gateway tool.                                            *)
(* SpecKey   SpecGw with a client key configured.                          *)
(* SpecFast  the same server behind the FastMCP gateway.                   *)
(* SpecConc  job_status is executed by several request threads whose       *)
(*           statements interleave (Flask's threaded development server).  *)
(* SpecPage  job_details over a range of offsets and limits.               *)
(* SpecNet   pbcs_request and req against every kind of remote answer.     *)
(* SpecLoop  the stdio loop main(), one line per step.                     *)
(***************************************************************************)
EXTENDS Integers, Sequences, FiniteSets, TLC

VARIABLES
    JOBS,         \* fake_pbcs_server.JOBS: jobId -> job record
    JOB_DETAILS,  \* fake_pbcs_server.JOB_DETAILS: jobId -> sequence of log entries
    clock,        \* time.time() * 1000, truncated to an integer
    cfg,          \* the gateway's configuration record (load_cfg)
    threads,      \* request threads inside job_status (SpecConc)
    last,         \* the last completed operation and what it returned
    submitted,    \* number of SubmitJob calls that returned 201
    polls         \* failure signals of the job_status calls started (SpecConc)

vars == <<JOBS, JOB_DETAILS, clock, cfg, threads, last, submitted, polls>>

-----------------------------------------------------------------------------
(* Bounds of the model *)

MaxTicks == 1        \* the clock advances at most this many milliseconds
MaxSubmits == 2      \* at most this many successful submissions
MaxPolls == 3        \* job_status calls started per run of SpecConc
NThreads == 2        \* concurrent request threads of SpecConc
MaxArg == 4          \* largest magnitude of an offset or a limit sent to job_details

(* Program constants *)

MsPerSecond == 1000  \* time.time() * 1000
PctStep == 35
PctCap == 100
PctFail == 70
DefaultLimit == 200
HttpError == 300     \* status_code >= 300 is HTTP_ERROR

NONE == "<None>"     \* Python None: an absent header, key or argument

ClockStart == 2 * MsPerSecond - 1
Clocks == ClockStart .. (ClockStart + MaxTicks)

Min(a, b) == IF a < b THEN a ELSE b
Max(a, b) == IF a > b THEN a ELSE b

-----------------------------------------------------------------------------
(* Python helpers *)

\* str.lower() on the header values the model sends
Lower(s) ==
    CASE s = "FAILURE401" -> "failure401"
      [] s = "Failure403" -> "failure403"
      [] s = "TRUE"       -> "true"
      [] OTHER            -> s

\* `x or ""` for a header value
OrEmpty(x) == IF x = NONE THEN "" ELSE x

\* truthiness of a string-or-None value: None and "" are falsy
Truthy(x) == x # NONE /\ x # ""

\* dict.get(key): None when the key is absent
Get(d, k) == IF k \in DOMAIN d THEN d[k] ELSE NONE

\* d[k] = v on a dict
Put(d, k, v) == [x \in DOMAIN d \cup {k} |-> IF x = k THEN v ELSE d[x]]

\* now_iso(): strftime at a resolution of one second
now_iso(t) == ToString(t \div MsPerSecond)

\* str(int(time.time() * 1000))
new_job_id(t) == ToString(t)

\* items[a:b] with Python's slice semantics (negative indices count from the
\* end, out-of-range indices are clamped)
PyIndex(i, n) == IF i < 0 THEN Max(i + n, 0) ELSE Min(i, n)
\* mutant: the slice includes its upper index
PySliceInclusive(s, a, b) ==
    LET lo == PyIndex(a, Len(s))
        hi == Min(PyIndex(b, Len(s)) + 1, Len(s))
    IN  IF lo >= hi THEN <<>> ELSE SubSeq(s, lo + 1, hi)
PySlice(s, a, b) ==
    LET lo == PyIndex(a, Len(s))
        hi == PyIndex(b, Len(s))
    IN  IF lo >= hi THEN <<>> ELSE SubSeq(s, lo + 1, hi)

-----------------------------------------------------------------------------
(* The fake PBCS server *)

JOB_DEFS == <<
    [jobType |-> "RULES", jobName |-> "RollupUSSales", description |-> "Aggregate US Sales"],
    [jobType |-> "IMPORT_DATA", jobName |-> "Import_GL", description |-> "Import GL data file"],
    [jobType |-> "EXPORT_DATA", jobName |-> "Export_GL", description |-> "Export GL data file"],
    [jobType |-> "REFRESH_CUBE", jobName |-> "RefreshPlan1", description |-> "Refresh cube Plan1"] >>

Msg(text) == [message |-> text]
\* An HTTP response: status code, body, whether the body is JSON, and whether
\* there is a body at all
Resp(code, body) == [status |-> code, body |-> body, json |-> TRUE, content |-> TRUE]
\* a response whose body is text that is not JSON, and one with no body at all
TextResp(code, text) == [status |-> code, body |-> Msg(text), json |-> FALSE, content |-> TRUE]
EmptyResp(code) == [status |-> code, body |-> Msg(""), json |-> FALSE, content |-> FALSE]
NoResp == Resp(0, Msg(""))

\* Flask's own error page for an exception escaping a handler
ServerError == TextResp(500, "<!doctype html>")

LogEntry(sev, text) == [severity |-> sev, type |-> "MESSAGE", row |-> NONE, message |-> text]

\* mutant: the header compared without lower()
require_authExact(h) ==
    IF OrEmpty(h.auth) = "failure401" THEN Resp(401, Msg("Unauthorized (simulated)"))
    ELSE IF OrEmpty(h.auth) = "failure403" THEN Resp(403, Msg("Forbidden (simulated)"))
    ELSE NoResp

\* require_auth(): the denial response, or NoResp for "allow"
require_auth(h) ==
    LET mode == Lower(OrEmpty(h.auth))
    IN  IF mode = "failure401" THEN Resp(401, Msg("Unauthorized (simulated)"))
        ELSE IF mode = "failure403" THEN Resp(403, Msg("Forbidden (simulated)"))
        ELSE NoResp

Denied(h) == require_auth(h) # NoResp

\* A handler's outcome: the two tables after it and its response
Out(jobs, details, resp) == [jobs |-> jobs, details |-> details, resp |-> resp]

versions(jobs, details, h) ==
    IF Denied(h) THEN Out(jobs, details, require_auth(h))
    ELSE Out(jobs, details,
             Resp(200, [items |->
                 << [version |-> "v3",
                     links |-> << [rel |-> "self", href |-> "/HyperionPlanning/rest/v3"] >>] >>]))

jobdefinitions(jobs, details, h, appname) ==
    IF Denied(h) THEN Out(jobs, details, require_auth(h))
    ELSE Out(jobs, details, Resp(200, [items |-> JOB_DEFS, application |-> appname]))

\* body.get("parameters", {}) or {}; a dict is written as its literal
ParamsOf(body) == IF body.parameters = NONE THEN "{}" ELSE body.parameters

\* lines 75-85; t is the clock when now_iso() is called on line 82
NewJob(job_id, appname, body, t) ==
    [jobId |-> job_id,
     jobType |-> body.jobType,
     jobName |-> body.jobName,
     status |-> "RUNNING",
     descriptiveStatus |-> "RUNNING",
     percentComplete |-> 0,
     startTime |-> now_iso(t),
     application |-> appname,
     parameters |-> ParamsOf(body)]

\* mutant: only the first of the two initial entries is written
NewLogOne(body) == << LogEntry("INFO", <<"Job ", body.jobName, " started.">>) >>

NewLog(body) ==
    << LogEntry("INFO", <<"Job ", body.jobName, " started.">>),
       LogEntry("INFO", <<"jobType=", body.jobType, " parameters=", ParamsOf(body)>>) >>

\* mutant: the throttle is applied after the job has been stored
execute_jobThrottleLate(jobs, details, h, appname, body, t, t2) ==
    IF Denied(h) THEN Out(jobs, details, require_auth(h))
    ELSE IF ~Truthy(body.jobType) \/ ~Truthy(body.jobName)
    THEN Out(jobs, details, Resp(400, Msg("jobType and jobName are required")))
    ELSE LET job_id == new_job_id(t)
         IN  Out(Put(jobs, job_id, NewJob(job_id, appname, body, t2)),
                 Put(details, job_id, NewLog(body)),
                 IF Lower(OrEmpty(h.rate)) = "429"
                 THEN Resp(429, Msg("Too Many Requests (simulated)"))
                 ELSE Resp(201, [jobId |-> job_id, status |-> "RUNNING",
                                 descriptiveStatus |-> "RUNNING"]))

\* the handler reads the clock twice: t on line 74 (the job id) and t2 on
\* line 82 (startTime)
execute_job(jobs, details, h, appname, body, t, t2) ==
    IF Denied(h) THEN Out(jobs, details, require_auth(h))
    ELSE IF ~Truthy(body.jobType) \/ ~Truthy(body.jobName)
    THEN Out(jobs, details, Resp(400, Msg("jobType and jobName are required")))
    ELSE IF Lower(OrEmpty(h.rate)) = "429"
    THEN Out(jobs, details, Resp(429, Msg("Too Many Requests (simulated)")))
    ELSE LET job_id == new_job_id(t)
         IN  Out(Put(jobs, job_id, NewJob(job_id, appname, body, t2)),
                 Put(details, job_id, NewLog(body)),
                 Resp(201, [jobId |-> job_id, status |-> "RUNNING",
                            descriptiveStatus |-> "RUNNING"]))

\* mutant: the increment without its cap
BumpNoCap(p) == p + PctStep

\* line 105: min(100, int(job["percentComplete"]) + 35)
Bump(p) == Min(PctCap, p + PctStep)

\* mutant: the failure threshold taken as strict
FailRuleStrict(h, p) == Lower(OrEmpty(h.fail)) = "true" /\ p > PctFail

\* line 108: the failure rule
FailRule(h, p) == Lower(OrEmpty(h.fail)) = "true" /\ p >= PctFail

\* line 113: the success rule
DoneRule(p) == p >= PctCap

\* lines 109-111 / 114-116
Terminate(job, st, t) ==
    Put([job EXCEPT !.status = st, !.descriptiveStatus = st], "endTime", now_iso(t))

FailEntry == LogEntry("ERROR", <<"Simulated failure occurred.">>)
DoneEntry == LogEntry("INFO", <<"Job completed successfully.">>)

\* mutant: the handler without its `status == "RUNNING"` guard
AdvanceAlways(job, log, h, t) ==
    LET p == Min(PctCap, job.percentComplete + PctStep)
        j == [job EXCEPT !.percentComplete = p]
    IN  IF Lower(OrEmpty(h.fail)) = "true" /\ p >= PctFail
        THEN <<Put([j EXCEPT !.status = "FAILED", !.descriptiveStatus = "FAILED"],
                   "endTime", now_iso(t)),
               Append(log, LogEntry("ERROR", <<"Simulated failure occurred.">>))>>
        ELSE IF p >= PctCap
        THEN <<Put([j EXCEPT !.status = "SUCCEEDED", !.descriptiveStatus = "SUCCEEDED"],
                   "endTime", now_iso(t)),
               Append(log, LogEntry("INFO", <<"Job completed successfully.">>))>>
        ELSE <<j, log>>

\* lines 104-117 on one job and its log, run without interruption
Advance(job, log, h, t) ==
    IF job.status = "RUNNING"
    THEN LET p == Bump(job.percentComplete)
             j == [job EXCEPT !.percentComplete = p]
         IN  IF FailRule(h, p) THEN <<Terminate(j, "FAILED", t), Append(log, FailEntry)>>
             ELSE IF DoneRule(p) THEN <<Terminate(j, "SUCCEEDED", t), Append(log, DoneEntry)>>
             ELSE <<j, log>>
    ELSE <<job, log>>

\* mutant: a poll that finds its job advances every job of the store
job_statusAdvanceAll(jobs, details, h, job_id, t) ==
    IF Denied(h) THEN Out(jobs, details, require_auth(h))
    ELSE IF job_id \notin DOMAIN jobs
    THEN Out(jobs, details, Resp(404, Msg("Job not found")))
    ELSE LET a(id) == Advance(jobs[id], details[id], h, t)
         IN  Out([id \in DOMAIN jobs |-> a(id)[1]],
                 [id \in DOMAIN details |-> a(id)[2]],
                 Resp(200, a(job_id)[1]))

job_status(jobs, details, h, job_id, t) ==
    IF Denied(h) THEN Out(jobs, details, require_auth(h))
    ELSE IF job_id \notin DOMAIN jobs
    THEN Out(jobs, details, Resp(404, Msg("Job not found")))
    ELSE LET a == Advance(jobs[job_id], details[job_id], h, t)
         IN  Out([jobs EXCEPT ![job_id] = a[1]],
                 [details EXCEPT ![job_id] = a[2]],
                 Resp(200, a[1]))

\* int(request.args.get(name, default)) for a query argument q:
\* absent -> default, a numeral -> its value, anything else -> ValueError
IntOk(q) == q.k # "bad"
IntOf(q, default) == IF q.k = "absent" THEN default ELSE q.n

\* mutant: offset and limit are parsed before the job is looked up
job_detailsParseFirst(jobs, details, h, job_id, offset, limit) ==
    IF Denied(h) THEN Out(jobs, details, require_auth(h))
    ELSE IF ~IntOk(offset) \/ ~IntOk(limit)
    THEN Out(jobs, details, ServerError)
    ELSE IF job_id \notin DOMAIN details
    THEN Out(jobs, details, Resp(404, Msg("Job not found")))
    ELSE LET items == details[job_id]
             off == IntOf(offset, 0)
             lim == IntOf(limit, DefaultLimit)
             page == PySlice(items, off, off + lim)
         IN  Out(jobs, details,
                 Resp(200, [items |-> page, offset |-> off, limit |-> lim,
                            count |-> Len(page),
                            hasMore |-> (off + lim) < Len(items)]))

job_details(jobs, details, h, job_id, offset, limit) ==
    IF Denied(h) THEN Out(jobs, details, require_auth(h))
    ELSE IF job_id \notin DOMAIN details
    THEN Out(jobs, details, Resp(404, Msg("Job not found")))
    ELSE IF ~IntOk(offset) \/ ~IntOk(limit)
    THEN Out(jobs, details, ServerError)
    ELSE LET items == details[job_id]
             off == IntOf(offset, 0)
             lim == IntOf(limit, DefaultLimit)
             page == PySlice(items, off, off + lim)
         IN  Out(jobs, details,
                 Resp(200, [items |-> page, offset |-> off, limit |-> lim,
                            count |-> Len(page),
                            hasMore |-> (off + lim) < Len(items)]))

-----------------------------------------------------------------------------
(* The tool gateway (pbcs_copilot_mcp.py) *)

\* the simulation headers pbcs_request adds when the configuration sets them
GwHeaders(c) ==
    [auth |-> IF Truthy(c.fake_auth_mode) THEN c.fake_auth_mode ELSE NONE,
     rate |-> IF Truthy(c.fake_rate_limit) THEN c.fake_rate_limit ELSE NONE,
     fail |-> IF Truthy(c.fake_fail_job) THEN c.fake_fail_job ELSE NONE]

\* the dict {}
EmptyDict == [k \in {} |-> NONE]

\* pbcs_request after requests.request: net = "down" is a connection error or
\* timeout, resp the server's answer otherwise; r.json() is called when the
\* body is not empty and raises when it is not JSON
pbcs_request(c, url, net, resp) ==
    IF net = "down"
    THEN [ok |-> FALSE, error |-> "NETWORK_OR_PARSE_ERROR", message |-> "ConnectionError", url |-> url]
    ELSE IF resp.content /\ ~resp.json
    THEN [ok |-> FALSE, error |-> "NETWORK_OR_PARSE_ERROR", message |-> "JSONDecodeError", url |-> url]
    ELSE LET payload == IF resp.content THEN resp.body ELSE EmptyDict
         IN  IF resp.status >= HttpError
             THEN [ok |-> FALSE, error |-> "HTTP_ERROR", status_code |-> resp.status,
                   response |-> payload]
             ELSE [ok |-> TRUE, status_code |-> resp.status, response |-> payload]

\* an exception leaving the function
Raised(what) == [raised |-> what]

\* req of pbcs_copilot_mcp_fastmcp.py: requests.request is outside the try, so
\* a connection error or timeout leaves the function; a body that is not
\* JSON is kept as raw_text
req(net, resp) ==
    IF net = "down" THEN Raised("ConnectionError")
    ELSE LET payload == IF ~resp.content THEN EmptyDict
                        ELSE IF resp.json THEN resp.body
                        ELSE [raw_text |-> resp.body.message]
         IN  IF resp.status >= HttpError
             THEN [ok |-> FALSE, status_code |-> resp.status, error |-> "HTTP_ERROR",
                   response |-> payload]
             ELSE [ok |-> TRUE, status_code |-> resp.status, response |-> payload]

\* `a or b` on strings
Or(a, b) == IF Truthy(a) THEN a ELSE b

compact_job_defs(payload) ==
    LET items == IF "items" \in DOMAIN payload THEN payload.items ELSE <<>>
        defs == [i \in 1 .. Len(items) |->
                    [jobType |-> Get(items[i], "jobType"),
                     jobName |-> Get(items[i], "jobName"),
                     description |-> Get(items[i], "description")]]
    IN  [ok |-> TRUE, count |-> Len(defs), jobDefinitions |-> defs]

compact_job_submit(payload) ==
    [ok |-> TRUE, jobId |-> Get(payload, "jobId"),
     status |-> Or(Get(payload, "status"), Get(payload, "descriptiveStatus"))]

compact_job_status(job_id, payload) ==
    [ok |-> TRUE, jobId |-> job_id,
     status |-> Or(Get(payload, "status"), Get(payload, "descriptiveStatus")),
     percentComplete |-> Get(payload, "percentComplete"),
     startTime |-> Get(payload, "startTime"),
     endTime |-> Get(payload, "endTime"),
     jobType |-> Get(payload, "jobType"),
     jobName |-> Get(payload, "jobName")]

compact_job_details(job_id, offset, limit, payload) ==
    LET items == IF "items" \in DOMAIN payload THEN payload.items ELSE <<>>
        out == [i \in 1 .. Len(items) |->
                   [severity |-> Get(items[i], "severity"), type |-> Get(items[i], "type"),
                    row |-> Get(items[i], "row"), message |-> Get(items[i], "message")]]
    IN  [ok |-> TRUE, jobId |-> job_id, offset |-> offset, limit |-> limit,
         count |-> Len(out), items |-> out,
         hasMore |-> IF "hasMore" \in DOMAIN payload THEN payload.hasMore ELSE FALSE]

Unauthorized ==
    [ok |-> FALSE, error |-> "UNAUTHORIZED_CLIENT", message |-> "Invalid MCP client API key."]
BadArguments(text) == [ok |-> FALSE, error |-> "BAD_ARGUMENTS", message |-> text]

\* mutant: a call that sends no credential at all is let through
check_client_keyPresentOnly(c, args) ==
    Truthy(c.client_api_key) /\ args.client_api_key # NONE
        /\ args.client_api_key # c.client_api_key

\* check_client_key(): TRUE when the call is refused
check_client_key(c, args) ==
    Truthy(c.client_api_key) /\ args.client_api_key # c.client_api_key

\* A tool's outcome: what it returned, the remote calls it issued, and the
\* server's outcome
TOut(result, calls, out) == [result |-> result, calls |-> calls, out |-> out]
Local(result, jobs, details) == TOut(result, 0, Out(jobs, details, NoResp))

\* the one outbound call: the server handles it unless the transport is down
Reach(net, out, jobs, details) == IF net = "up" THEN out ELSE Out(jobs, details, NoResp)

\* the routes of the server other than versions exist under /rest/v3 only:
\* a request for any other version is answered with Flask's 404 page and no
\* handler runs
NotFoundPage == TextResp(404, "<!doctype html>")
Routed(v, out, jobs, details) ==
    IF v = "v3" THEN out ELSE Out(jobs, details, NotFoundPage)

BasePath(c, args) ==
    <<c.base_url, "/HyperionPlanning/rest/", Or(args.api_version, c.api_version),
      "/applications/", Or(args.application, c.application)>>

tool_discover_versions(c, args, jobs, details, net) ==
    IF check_client_key(c, args) THEN Local(Unauthorized, jobs, details)
    ELSE LET o == Reach(net, versions(jobs, details, GwHeaders(c)), jobs, details)
         IN  TOut(pbcs_request(c, <<c.base_url, "/HyperionPlanning/rest/">>, net, o.resp), 1, o)

tool_list_job_definitions(c, args, jobs, details, net) ==
    IF check_client_key(c, args) THEN Local(Unauthorized, jobs, details)
    ELSE LET v == Or(args.api_version, c.api_version)
             app == Or(args.application, c.application)
             o == Reach(net, Routed(v, jobdefinitions(jobs, details, GwHeaders(c), app),
                                    jobs, details),
                        jobs, details)
             res == pbcs_request(c, BasePath(c, args) \o <<"/jobdefinitions">>, net, o.resp)
         IN  TOut(IF ~res.ok THEN res ELSE compact_job_defs(res.response), 1, o)

tool_execute_job(c, args, jobs, details, net, t, t2) ==
    IF check_client_key(c, args) THEN Local(Unauthorized, jobs, details)
    ELSE IF ~Truthy(args.job_type) \/ ~Truthy(args.job_name)
    THEN Local(BadArguments("job_type and job_name are required"), jobs, details)
    ELSE LET v == Or(args.api_version, c.api_version)
             app == Or(args.application, c.application)
             body == [jobType |-> args.job_type, jobName |-> args.job_name,
                      parameters |-> Or(args.parameters, "{}")]
             o == Reach(net, Routed(v, execute_job(jobs, details, GwHeaders(c), app, body, t, t2),
                                    jobs, details),
                        jobs, details)
             res == pbcs_request(c, BasePath(c, args) \o <<"/jobs">>, net, o.resp)
         IN  TOut(IF ~res.ok THEN res ELSE compact_job_submit(res.response), 1, o)

tool_get_job_status(c, args, jobs, details, net, t) ==
    IF check_client_key(c, args) THEN Local(Unauthorized, jobs, details)
    ELSE IF ~Truthy(args.job_id)
    THEN Local(BadArguments("job_id is required"), jobs, details)
    ELSE LET v == Or(args.api_version, c.api_version)
             o == Reach(net, Routed(v, job_status(jobs, details, GwHeaders(c), args.job_id, t),
                                    jobs, details),
                        jobs, details)
             res == pbcs_request(c, BasePath(c, args) \o <<"/jobs/", args.job_id>>, net, o.resp)
         IN  TOut(IF ~res.ok THEN res ELSE compact_job_status(args.job_id, res.response), 1, o)

tool_get_job_details(c, args, jobs, details, net) ==
    IF check_client_key(c, args) THEN Local(Unauthorized, jobs, details)
    ELSE IF ~IntOk(args.offset) \/ ~IntOk(args.limit)
    THEN Local(Raised("ValueError"), jobs, details)
    ELSE IF ~Truthy(args.job_id)
    THEN Local(BadArguments("job_id is required"), jobs, details)
    ELSE LET v == Or(args.api_version, c.api_version)
             offset == IntOf(args.offset, 0)
             limit == IntOf(args.limit, DefaultLimit)
             o == Reach(net, Routed(v, job_details(jobs, details, GwHeaders(c), args.job_id,
                                                   [k |-> "int", n |-> offset],
                                                   [k |-> "int", n |-> limit]),
                                    jobs, details),
                        jobs, details)
             res == pbcs_request(c, BasePath(c, args) \o <<"/jobs/", args.job_id, "/details">>,
                                 net, o.resp)
         IN  TOut(IF ~res.ok THEN res
                  ELSE compact_job_details(args.job_id, offset, limit, res.response), 1, o)

-----------------------------------------------------------------------------
(* Inputs the environment may send *)

AuthModes == {NONE, "failure401", "Failure403"}
RateModes == {NONE, "429"}
FailModes == {NONE, "TRUE"}
NoHeaders == [auth |-> NONE, rate |-> NONE, fail |-> NONE]
\* the headers each handler reads
AuthHeaders == [auth : AuthModes, rate : {NONE}, fail : {NONE}]
SubmitHeaders == [auth : AuthModes, rate : RateModes, fail : {NONE}]
PollHeaders == [auth : AuthModes, rate : {NONE}, fail : FailModes]

Apps == {"Vision"}
Bodies == [jobType : {NONE, "RULES"}, jobName : {"", "Import_GL"}, parameters : {NONE}]
NoBody == [jobType |-> NONE, jobName |-> NONE, parameters |-> NONE]

\* job ids a caller may ask for: every id the clock can produce, and one it cannot
ReqIds == {new_job_id(t) : t \in Clocks} \cup {"nope"}

QAbsent == [k |-> "absent", n |-> 0]
QBad == [k |-> "bad", n |-> 0]
QInt(i) == [k |-> "int", n |-> i]
\* (offset, limit) pairs of a details request
Pages == {<<QAbsent, QAbsent>>, <<QInt(1), QInt(1)>>, <<QBad, QAbsent>>}

DefaultCfg ==
    [base_url |-> "http://127.0.0.1:9010", application |-> "Vision", api_version |-> "v3",
     client_api_key |-> NONE, fake_auth_mode |-> NONE, fake_rate_limit |-> NONE,
     fake_fail_job |-> NONE]

Idle == [pc |-> "idle", job_id |-> NONE, h |-> NoHeaders, tmp |-> 0]
Threads == 1 .. NThreads

NoArgs ==
    [client_api_key |-> NONE, api_version |-> NONE, application |-> NONE, job_type |-> NONE,
     job_name |-> NONE, parameters |-> NONE, job_id |-> NONE, offset |-> QAbsent,
     limit |-> QAbsent]
NoResult == [none |-> TRUE]

\* what the gateway may be configured with, and what its callers may send
GwCfgs ==
    {DefaultCfg,
     [DefaultCfg EXCEPT !.client_api_key = "", !.fake_fail_job = "true"],
     [DefaultCfg EXCEPT !.client_api_key = "s3cret"],
     [DefaultCfg EXCEPT !.client_api_key = "s3cret", !.fake_auth_mode = "failure403"],
     [DefaultCfg EXCEPT !.client_api_key = "s3cret", !.fake_rate_limit = "429"],
     [DefaultCfg EXCEPT !.client_api_key = "s3cret", !.api_version = "v2"]}
ArgKeys == {NONE, "s3cret", "wrong"}
Nets == {"up", "down"}
\* the (api_version, application) a caller may name: neither, or a version
\* the server does not serve and another application
Routes == {<<NONE, NONE>>, <<"v2", "Plan2">>}
ToolPages == {<<QAbsent, QAbsent>>, <<QBad, QInt(1)>>}

\* what `last` remembers of a completed HTTP request
Done(op, h, job_id, body, resp) ==
    [op |-> op, via |-> "http", h |-> h, job_id |-> job_id, body |-> body,
     calls |-> 1, resp |-> resp, args |-> NoArgs, result |-> NoResult]

\* what `last` remembers of a completed tool call
Called(op, c, args, r) ==
    [op |-> op, via |-> "tool", h |-> GwHeaders(c), job_id |-> args.job_id, body |-> NoBody,
     calls |-> r.calls, resp |-> r.out.resp, args |-> args, result |-> r.result]

Start ==
    [op |-> "start", via |-> "none", h |-> NoHeaders, job_id |-> NONE, body |-> NoBody,
     calls |-> 0, resp |-> NoResp, args |-> NoArgs, result |-> NoResult]

Init ==
    /\ JOBS = <<>>
    /\ JOB_DETAILS = <<>>
    /\ clock = ClockStart
    /\ cfg = DefaultCfg
    /\ threads = [t \in Threads |-> Idle]
    /\ last = Start
    /\ submitted = 0
    /\ polls = <<>>

\* the clock readings a handler may still get after it has started
Later == {t \in Clocks : t >= clock}

\* time passes
Tick ==
    /\ clock < ClockStart + MaxTicks
    /\ clock' = clock + 1
    /\ UNCHANGED <<JOBS, JOB_DETAILS, cfg, threads, last, submitted, polls>>

\* apply a handler's outcome to the tables
Commit(out) ==
    /\ JOBS' = out.jobs
    /\ JOB_DETAILS' = out.details

HttpVersions ==
    \E h \in AuthHeaders :
        LET out == versions(JOBS, JOB_DETAILS, h)
        IN  /\ Commit(out)
            /\ last' = Done("versions", h, NONE, NoBody, out.resp)
            /\ UNCHANGED <<clock, cfg, threads, submitted, polls>>

HttpJobDefinitions ==
    \E h \in AuthHeaders, app \in Apps :
        LET out == jobdefinitions(JOBS, JOB_DETAILS, h, app)
        IN  /\ Commit(out)
            /\ last' = Done("jobdefinitions", h, NONE, NoBody, out.resp)
            /\ UNCHANGED <<clock, cfg, threads, submitted, polls>>

HttpExecuteJob ==
    \E h \in SubmitHeaders, app \in Apps, body \in Bodies, t2 \in Later :
        LET out == execute_job(JOBS, JOB_DETAILS, h, app, body, clock, t2)
        IN  /\ out.resp.status = 201 => submitted < MaxSubmits
            /\ out.resp.status # 201 => t2 = clock
            /\ Commit(out)
            /\ last' = Done("execute_job", h, NONE, body, out.resp)
            /\ submitted' = IF out.resp.status = 201 THEN submitted + 1 ELSE submitted
            /\ clock' = t2
            /\ UNCHANGED <<cfg, threads, polls>>

HttpJobStatus ==
    \E h \in PollHeaders, app \in Apps, job_id \in ReqIds :
        LET out == job_status(JOBS, JOB_DETAILS, h, job_id, clock)
        IN  /\ Commit(out)
            /\ last' = Done("job_status", h, job_id, NoBody, out.resp)
            /\ UNCHANGED <<clock, cfg, threads, submitted, polls>>

HttpJobDetails ==
    \E h \in AuthHeaders, app \in Apps, job_id \in ReqIds, pg \in Pages :
        LET out == job_details(JOBS, JOB_DETAILS, h, job_id, pg[1], pg[2])
        IN  /\ Commit(out)
            /\ last' = Done("job_details", h, job_id, NoBody, out.resp)
            /\ UNCHANGED <<clock, cfg, threads, submitted, polls>>

Next ==
    \/ Tick
    \/ HttpVersions
    \/ HttpJobDefinitions
    \/ HttpExecuteJob
    \/ HttpJobStatus
    \/ HttpJobDetails

Spec == Init /\ [][Next]_vars

-----------------------------------------------------------------------------
(* The FastMCP gateway (pbcs_copilot_mcp_fastmcp.py): the same five tools, *)
(* with no client key, no argument check and no simulation header.  The    *)
(* base URL is configured, so cfg() returns.                               *)

\* a tool's outcome after its one call to req: what req raised, the failure
\* it returned, or the compact form of the payload
FastOut(net, o, res, compact) ==
    TOut(IF net = "down" THEN res ELSE IF ~res.ok THEN res ELSE compact, 1, o)

planning_discover_versions(c, args, jobs, details, net) ==
    LET o == Reach(net, versions(jobs, details, NoHeaders), jobs, details)
    IN  TOut(req(net, o.resp), 1, o)

planning_list_job_definitions(c, args, jobs, details, net) ==
    LET v == Or(args.api_version, c.api_version)
        app == Or(args.application, c.application)
        o == Reach(net, Routed(v, jobdefinitions(jobs, details, NoHeaders, app), jobs, details),
                   jobs, details)
        res == req(net, o.resp)
    IN  FastOut(net, o, res, compact_job_defs(res.response))

planning_execute_job(c, args, jobs, details, net, t, t2) ==
    LET v == Or(args.api_version, c.api_version)
        app == Or(args.application, c.application)
        body == [jobType |-> args.job_type, jobName |-> args.job_name,
                 parameters |-> Or(args.parameters, "{}")]
        o == Reach(net, Routed(v, execute_job(jobs, details, NoHeaders, app, body, t, t2),
                               jobs, details),
                   jobs, details)
        res == req(net, o.resp)
    IN  FastOut(net, o, res, compact_job_submit(res.response))

planning_get_job_status(c, args, jobs, details, net, t) ==
    LET v == Or(args.api_version, c.api_version)
        o == Reach(net, Routed(v, job_status(jobs, details, NoHeaders, args.job_id, t),
                               jobs, details),
                   jobs, details)
        res == req(net, o.resp)
    IN  FastOut(net, o, res, compact_job_status(args.job_id, res.response))

planning_get_job_details(c, args, jobs, details, net) ==
    LET v == Or(args.api_version, c.api_version)
        offset == IntOf(args.offset, 0)
        limit == IntOf(args.limit, DefaultLimit)
        o == Reach(net, Routed(v, job_details(jobs, details, NoHeaders, args.job_id,
                                              [k |-> "int", n |-> offset],
                                              [k |-> "int", n |-> limit]),
                               jobs, details),
                   jobs, details)
        res == req(net, o.resp)
    IN  FastOut(net, o, res, compact_job_details(args.job_id, offset, limit, res.response))

-----------------------------------------------------------------------------
(* The gateway in front of the server: every request is a tool call *)

InitGw ==
    /\ JOBS = <<>>
    /\ JOB_DETAILS = <<>>
    /\ clock = ClockStart
    /\ cfg \in GwCfgs
    /\ threads = [t \in Threads |-> Idle]
    /\ last = Start
    /\ submitted = 0
    /\ polls = <<>>

\* a tool call completes: the server's tables and the caller's result
Return(op, args, r) ==
    /\ Commit(r.out)
    /\ last' = Called(op, cfg, args, r)
    /\ UNCHANGED <<clock, cfg, threads, polls>>

ToolDiscoverVersions ==
    \E key \in ArgKeys, net \in Nets :
        LET args == [NoArgs EXCEPT !.client_api_key = key]
        IN  /\ Return("tool_discover_versions", args,
                      tool_discover_versions(cfg, args, JOBS, JOB_DETAILS, net))
            /\ UNCHANGED submitted

ToolListJobDefinitions ==
    \E key \in ArgKeys, net \in Nets, rt \in Routes \cup {<<"v3", "Plan2">>} :
        LET args == [NoArgs EXCEPT !.client_api_key = key, !.api_version = rt[1],
                                   !.application = rt[2]]
        IN  /\ Return("tool_list_job_definitions", args,
                      tool_list_job_definitions(cfg, args, JOBS, JOB_DETAILS, net))
            /\ UNCHANGED submitted

ToolExecuteJob ==
    \E key \in ArgKeys, net \in Nets, rt \in Routes, t2 \in Later,
       nm \in {<<NONE, "Import_GL">>, <<"RULES", NONE>>, <<"RULES", "Import_GL">>} :
        LET args == [NoArgs EXCEPT !.client_api_key = key, !.job_type = nm[1], !.job_name = nm[2],
                                   !.api_version = rt[1], !.application = rt[2]]
            r == tool_execute_job(cfg, args, JOBS, JOB_DETAILS, net, clock, t2)
        IN  /\ r.out.resp.status = 201 => submitted < MaxSubmits
            /\ r.out.resp.status # 201 => t2 = clock
            /\ Commit(r.out)
            /\ last' = Called("tool_execute_job", cfg, args, r)
            /\ submitted' = IF r.out.resp.status = 201 THEN submitted + 1 ELSE submitted
            /\ clock' = t2
            /\ UNCHANGED <<cfg, threads, polls>>

ToolGetJobStatus ==
    \E key \in ArgKeys, net \in Nets, job_id \in ReqIds \cup {NONE}, rt \in Routes :
        LET args == [NoArgs EXCEPT !.client_api_key = key, !.job_id = job_id,
                                   !.api_version = rt[1], !.application = rt[2]]
        IN  /\ Return("tool_get_job_status", args,
                      tool_get_job_status(cfg, args, JOBS, JOB_DETAILS, net, clock))
            /\ UNCHANGED submitted

ToolGetJobDetails ==
    \E key \in ArgKeys, net \in Nets, pg \in ToolPages, rt \in Routes,
       job_id \in {NONE, new_job_id(ClockStart), "nope"} :
        LET args == [NoArgs EXCEPT !.client_api_key = key, !.job_id = job_id,
                                   !.offset = pg[1], !.limit = pg[2],
                                   !.api_version = rt[1], !.application = rt[2]]
        IN  /\ Return("tool_get_job_details", args,
                      tool_get_job_details(cfg, args, JOBS, JOB_DETAILS, net))
            /\ UNCHANGED submitted

NextGw ==
    \/ Tick
    \/ ToolDiscoverVersions
    \/ ToolListJobDefinitions
    \/ ToolExecuteJob
    \/ ToolGetJobStatus
    \/ ToolGetJobDetails

SpecGw == InitGw /\ [][NextGw]_vars

\* the gateway configured with a client key (MCP_CLIENT_API_KEY set)
InitKey == InitGw /\ Truthy(cfg.client_api_key)

SpecKey == InitKey /\ [][NextGw]_vars

-----------------------------------------------------------------------------
(* The FastMCP gateway in front of the server *)

\* a call of a FastMCP tool completes
FastReturn(op, args, r) ==
    /\ Commit(r.out)
    /\ last' = [Called(op, cfg, args, r) EXCEPT !.via = "fastmcp", !.h = NoHeaders]
    /\ UNCHANGED <<clock, cfg, threads, polls>>

FastDiscoverVersions ==
    \E net \in Nets :
        /\ FastReturn("planning_discover_versions", NoArgs,
                      planning_discover_versions(cfg, NoArgs, JOBS, JOB_DETAILS, net))
        /\ UNCHANGED submitted

FastListJobDefinitions ==
    \E net \in Nets, rt \in Routes \cup {<<"v3", "Plan2">>} :
        LET args == [NoArgs EXCEPT !.api_version = rt[1], !.application = rt[2]]
        IN  /\ FastReturn("planning_list_job_definitions", args,
                          planning_list_job_definitions(cfg, args, JOBS, JOB_DETAILS, net))
            /\ UNCHANGED submitted

FastExecuteJob ==
    \E net \in Nets, jt \in {"", "RULES"}, jn \in {"Import_GL"}, rt \in Routes, t2 \in Later :
        LET args == [NoArgs EXCEPT !.job_type = jt, !.job_name = jn,
                                   !.api_version = rt[1], !.application = rt[2]]
            r == planning_execute_job(cfg, args, JOBS, JOB_DETAILS, net, clock, t2)
        IN  /\ r.out.resp.status = 201 => submitted < MaxSubmits
            /\ r.out.resp.status # 201 => t2 = clock
            /\ Commit(r.out)
            /\ last' = [Called("planning_execute_job", cfg, args, r)
                            EXCEPT !.via = "fastmcp", !.h = NoHeaders]
            /\ submitted' = IF r.out.resp.status = 201 THEN submitted + 1 ELSE submitted
            /\ clock' = t2
            /\ UNCHANGED <<cfg, threads, polls>>

FastGetJobStatus ==
    \E net \in Nets, job_id \in ReqIds, rt \in Routes :
        LET args == [NoArgs EXCEPT !.job_id = job_id, !.api_version = rt[1],
                                   !.application = rt[2]]
        IN  /\ FastReturn("planning_get_job_status", args,
                          planning_get_job_status(cfg, args, JOBS, JOB_DETAILS, net, clock))
            /\ UNCHANGED submitted

FastGetJobDetails ==
    \E net \in Nets, job_id \in ReqIds, pg \in {<<QAbsent, QAbsent>>, <<QInt(1), QInt(1)>>},
       rt \in Routes :
        LET args == [NoArgs EXCEPT !.job_id = job_id, !.offset = pg[1], !.limit = pg[2],
                                   !.api_version = rt[1], !.application = rt[2]]
        IN  /\ FastReturn("planning_get_job_details", args,
                          planning_get_job_details(cfg, args, JOBS, JOB_DETAILS, net))
            /\ UNCHANGED submitted

NextFast ==
    \/ Tick
    \/ FastDiscoverVersions
    \/ FastListJobDefinitions
    \/ FastExecuteJob
    \/ FastGetJobStatus
    \/ FastGetJobDetails

SpecFast == Init /\ [][NextFast]_vars

-----------------------------------------------------------------------------
(* execute_job and job_status run by concurrent request threads.  Each   *)
(* action is one statement of a handler; between two statements any other  *)
(* thread may run.  One job is submitted; the polls and the reads of its   *)
(* log may start as soon as line 75 has stored its record.                 *)

At(t, pc) == threads[t].pc = pc
Goto(t, pc) == threads' = [threads EXCEPT ![t].pc = pc]
JobOf(t) == JOBS[threads[t].job_id]
SetJob(t, job) == JOBS' = [JOBS EXCEPT ![threads[t].job_id] = job]
Quiescent == \A t \in Threads : threads[t].pc = "idle"
Started == IF DOMAIN polls = {} THEN 0
           ELSE LET Sum[S \in SUBSET DOMAIN polls] ==
                        IF S = {} THEN 0
                        ELSE LET x == CHOOSE x \in S : TRUE
                             IN  polls[x].f + polls[x].n + Sum[S \ {x}]
                IN  Sum[DOMAIN polls]

ConcBody == [jobType |-> "RULES", jobName |-> "Import_GL", parameters |-> NONE]

\* lines 56-74 of execute_job: the request passes the gate and the checks,
\* and the job id is taken from the clock
ConcSubmit ==
    \E t \in Threads :
        /\ At(t, "idle")
        /\ DOMAIN JOBS = {} /\ \A u \in Threads : ~At(u, "l82") /\ ~At(u, "l75")
        /\ threads' = [threads EXCEPT ![t] = [pc |-> "l82", job_id |-> new_job_id(clock),
                                              h |-> NoHeaders, tmp |-> 0]]
        /\ UNCHANGED <<JOBS, JOB_DETAILS, clock, cfg, last, submitted, polls>>

\* line 82: now_iso(), the second reading of the clock, while the record of
\* lines 75-85 is built
L82 ==
    \E t \in Threads :
        /\ At(t, "l82")
        /\ threads' = [threads EXCEPT ![t].pc = "l75", ![t].tmp = clock]
        /\ UNCHANGED <<JOBS, JOB_DETAILS, clock, cfg, last, submitted, polls>>

\* lines 75-85: the store JOBS[job_id] = {...}, with the startTime read on
\* line 82
L75 ==
    \E t \in Threads :
        /\ At(t, "l75")
        /\ LET id == threads[t].job_id
               job == NewJob(id, "Vision", ConcBody, threads[t].tmp)
           IN  /\ JOBS' = Put(JOBS, id, job)
               /\ polls' = Put(polls, id, [job |-> job, log |-> NewLog(ConcBody),
                                           f |-> 0, n |-> 0])
        /\ threads' = [threads EXCEPT ![t].pc = "l87", ![t].tmp = 0]
        /\ UNCHANGED <<JOB_DETAILS, clock, cfg, last, submitted>>

\* lines 87-92: JOB_DETAILS[job_id] = [...] and the 201 response
L87 ==
    \E t \in Threads :
        /\ At(t, "l87")
        /\ LET id == threads[t].job_id
           IN  /\ JOB_DETAILS' = Put(JOB_DETAILS, id, NewLog(ConcBody))
               /\ last' = Done("execute_job", NoHeaders, NONE, ConcBody,
                               Resp(201, [jobId |-> id, status |-> "RUNNING",
                                          descriptiveStatus |-> "RUNNING"]))
        /\ threads' = [threads EXCEPT ![t] = Idle]
        /\ submitted' = submitted + 1
        /\ UNCHANGED <<JOBS, clock, cfg, polls>>

\* lines 96-101: the auth gate and the lookup
Begin ==
    \E t \in Threads, h \in PollHeaders, job_id \in DOMAIN JOBS \cup {"nope"} :
        /\ At(t, "idle")
        /\ Denied(h) => h.fail = NONE
        /\ IF Denied(h) \/ job_id \notin DOMAIN JOBS
           THEN /\ last' = Done("job_status", h, job_id, NoBody,
                                job_status(JOBS, JOB_DETAILS, h, job_id, clock).resp)
                /\ UNCHANGED <<threads, polls>>
           ELSE /\ Started < MaxPolls
                /\ threads' = [threads EXCEPT ![t] = [pc |-> "l104", job_id |-> job_id,
                                                      h |-> h, tmp |-> 0]]
                /\ polls' = [polls EXCEPT ![job_id] =
                                IF FailRule(h, PctCap) THEN [@ EXCEPT !.f = @ + 1]
                                ELSE [@ EXCEPT !.n = @ + 1]]
                /\ UNCHANGED last
        /\ UNCHANGED <<JOBS, JOB_DETAILS, clock, cfg, submitted>>

\* line 104: if job["status"] == "RUNNING"
L104 ==
    \E t \in Threads :
        /\ At(t, "l104")
        /\ Goto(t, IF JobOf(t).status = "RUNNING" THEN "l105r" ELSE "l119")
        /\ UNCHANGED <<JOBS, JOB_DETAILS, clock, cfg, last, submitted, polls>>

\* line 105, right-hand side: int(job["percentComplete"]) + 35
L105Read ==
    \E t \in Threads :
        /\ At(t, "l105r")
        /\ threads' = [threads EXCEPT ![t].pc = "l105w", ![t].tmp = Bump(JobOf(t).percentComplete)]
        /\ UNCHANGED <<JOBS, JOB_DETAILS, clock, cfg, last, submitted, polls>>

\* line 105, the store into job["percentComplete"]
L105Write ==
    \E t \in Threads :
        /\ At(t, "l105w")
        /\ SetJob(t, [JobOf(t) EXCEPT !.percentComplete = threads[t].tmp])
        /\ Goto(t, "l108")
        /\ UNCHANGED <<JOB_DETAILS, clock, cfg, last, submitted, polls>>

\* line 108: if fail and int(job["percentComplete"]) >= 70
L108 ==
    \E t \in Threads :
        /\ At(t, "l108")
        /\ Goto(t, IF FailRule(threads[t].h, JobOf(t).percentComplete) THEN "l109" ELSE "l113")
        /\ UNCHANGED <<JOBS, JOB_DETAILS, clock, cfg, last, submitted, polls>>

\* line 113: elif int(job["percentComplete"]) >= 100, on a new reading
L113 ==
    \E t \in Threads :
        /\ At(t, "l113")
        /\ Goto(t, IF DoneRule(JobOf(t).percentComplete) THEN "l114" ELSE "l119")
        /\ UNCHANGED <<JOBS, JOB_DETAILS, clock, cfg, last, submitted, polls>>

\* lines 109 / 114: job["status"] = ...
SetStatus ==
    \E t \in Threads :
        /\ At(t, "l109") \/ At(t, "l114")
        /\ SetJob(t, [JobOf(t) EXCEPT !.status = IF At(t, "l109") THEN "FAILED" ELSE "SUCCEEDED"])
        /\ Goto(t, IF At(t, "l109") THEN "l110" ELSE "l115")
        /\ UNCHANGED <<JOB_DETAILS, clock, cfg, last, submitted, polls>>

\* lines 110 / 115: job["descriptiveStatus"] = ...
SetDescriptive ==
    \E t \in Threads :
        /\ At(t, "l110") \/ At(t, "l115")
        /\ SetJob(t, [JobOf(t) EXCEPT !.descriptiveStatus =
                          IF At(t, "l110") THEN "FAILED" ELSE "SUCCEEDED"])
        /\ Goto(t, IF At(t, "l110") THEN "l111" ELSE "l116")
        /\ UNCHANGED <<JOB_DETAILS, clock, cfg, last, submitted, polls>>

\* lines 111 / 116, right-hand side: now_iso() reads the clock
NowIso ==
    \E t \in Threads :
        /\ At(t, "l111") \/ At(t, "l116")
        /\ threads' = [threads EXCEPT ![t].pc = IF At(t, "l111") THEN "l111w" ELSE "l116w",
                                      ![t].tmp = clock]
        /\ UNCHANGED <<JOBS, JOB_DETAILS, clock, cfg, last, submitted, polls>>

\* lines 111 / 116, the store into job["endTime"] of the time read before
SetEnd ==
    \E t \in Threads :
        /\ At(t, "l111w") \/ At(t, "l116w")
        /\ SetJob(t, Put(JobOf(t), "endTime", now_iso(threads[t].tmp)))
        /\ threads' = [threads EXCEPT ![t].pc = IF At(t, "l111w") THEN "l112" ELSE "l117",
                                      ![t].tmp = 0]
        /\ UNCHANGED <<JOB_DETAILS, clock, cfg, last, submitted, polls>>

\* lines 112 / 117: JOB_DETAILS[job_id].append(...); while the submission
\* has not yet stored the log the lookup raises KeyError and Flask answers
\* with its error page
AppendLog ==
    \E t \in Threads :
        /\ At(t, "l112") \/ At(t, "l117")
        /\ IF threads[t].job_id \in DOMAIN JOB_DETAILS
           THEN /\ JOB_DETAILS' = [JOB_DETAILS EXCEPT ![threads[t].job_id] =
                                     Append(@, IF At(t, "l112") THEN FailEntry ELSE DoneEntry)]
                /\ Goto(t, "l119")
                /\ UNCHANGED last
           ELSE /\ last' = Done("job_status", threads[t].h, threads[t].job_id, NoBody,
                                ServerError)
                /\ threads' = [threads EXCEPT ![t] = Idle]
                /\ UNCHANGED JOB_DETAILS
        /\ UNCHANGED <<JOBS, clock, cfg, submitted, polls>>

\* line 119: return jsonify(job)
L119 ==
    \E t \in Threads :
        /\ At(t, "l119")
        /\ last' = Done("job_status", threads[t].h, threads[t].job_id, NoBody, Resp(200, JobOf(t)))
        /\ threads' = [threads EXCEPT ![t] = Idle]
        /\ UNCHANGED <<JOBS, JOB_DETAILS, clock, cfg, submitted, polls>>

\* job_details, lines 126-140, asked for the whole log: the lookup of line
\* 126 finds nothing until line 87 has stored the log
ConcDetails ==
    \E job_id \in DOMAIN JOBS :
        /\ last' = Done("job_details", NoHeaders, job_id, NoBody,
                        job_details(JOBS, JOB_DETAILS, NoHeaders, job_id, QAbsent, QAbsent).resp)
        /\ UNCHANGED <<JOBS, JOB_DETAILS, clock, cfg, threads, submitted, polls>>

NextConc ==
    \/ Tick
    \/ ConcSubmit
    \/ L82
    \/ L75
    \/ L87
    \/ Begin
    \/ L104
    \/ L105Read
    \/ L105Write
    \/ L108
    \/ L113
    \/ SetStatus
    \/ SetDescriptive
    \/ NowIso
    \/ SetEnd
    \/ AppendLog
    \/ L119
    \/ ConcDetails

SpecConc == Init /\ [][NextConc]_vars

-----------------------------------------------------------------------------
(* job_details over a range of offsets and limits.  One job is submitted    *)
(* and polled, so its log has 2 or 3 entries; the requests carry no          *)
(* simulation header.                                                        *)

\* offset and limit values of a request: absent, or an integer of either sign
PageArgs == {QAbsent} \cup {QInt(i) : i \in -MaxArg .. MaxArg}
PageBody == [jobType |-> "RULES", jobName |-> "Import_GL", parameters |-> NONE]
Paged(offset, limit) == [NoArgs EXCEPT !.offset = offset, !.limit = limit]

PageSubmit ==
    \E t2 \in Later :
        LET out == execute_job(JOBS, JOB_DETAILS, NoHeaders, "Vision", PageBody, clock, t2)
        IN  /\ DOMAIN JOBS = {}
            /\ Commit(out)
            /\ last' = Done("execute_job", NoHeaders, NONE, PageBody, out.resp)
            /\ submitted' = submitted + 1
            /\ clock' = t2
            /\ UNCHANGED <<cfg, threads, polls>>

PagePoll ==
    \E job_id \in DOMAIN JOBS, f \in FailModes :
        LET h == [NoHeaders EXCEPT !.fail = f]
            out == job_status(JOBS, JOB_DETAILS, h, job_id, clock)
        IN  /\ Commit(out)
            /\ last' = Done("job_status", h, job_id, NoBody, out.resp)
            /\ UNCHANGED <<clock, cfg, threads, submitted, polls>>

PageDetails ==
    \E job_id \in DOMAIN JOBS, offset \in PageArgs, limit \in PageArgs :
        LET out == job_details(JOBS, JOB_DETAILS, NoHeaders, job_id, offset, limit)
        IN  /\ Commit(out)
            /\ last' = [Done("job_details", NoHeaders, job_id, NoBody, out.resp)
                            EXCEPT !.args = Paged(offset, limit)]
            /\ UNCHANGED <<clock, cfg, threads, submitted, polls>>

NextPage ==
    \/ PageSubmit
    \/ PagePoll
    \/ PageDetails

SpecPage == Init /\ [][NextPage]_vars

-----------------------------------------------------------------------------
(* The outbound call of both gateways against every kind of answer: the     *)
(* transport up or down, and a response of any status whose body is JSON,   *)
(* text that is not JSON, or empty.                                          *)

Statuses == {200, 201, 204, 299, 300, 301, 400, 401, 403, 404, 429, 500, 503}
JsonBodies == {Msg("Job not found"), [links |-> <<>>]}
Texts == {"<!doctype html>", "Bad Gateway"}
Responses ==
    {Resp(s, b) : s \in Statuses, b \in JsonBodies}
        \cup {TextResp(s, t) : s \in Statuses, t \in Texts}
        \cup {EmptyResp(s) : s \in Statuses}
VersionsUrl == <<DefaultCfg.base_url, "/HyperionPlanning/rest/">>

\* what `last` remembers of an outbound call: the response (NoResp when the
\* transport was down) and what the function returned or raised
Sent(op, net, resp, result) ==
    [Start EXCEPT !.op = op, !.via = "gateway", !.calls = 1,
                  !.resp = IF net = "up" THEN resp ELSE NoResp, !.result = result]

StdioRequest ==
    \E net \in Nets, resp \in Responses :
        /\ last' = Sent("pbcs_request", net, resp, pbcs_request(cfg, VersionsUrl, net, resp))
        /\ UNCHANGED <<JOBS, JOB_DETAILS, clock, cfg, threads, submitted, polls>>

FastMcpRequest ==
    \E net \in Nets, resp \in Responses :
        /\ last' = Sent("req", net, resp, req(net, resp))
        /\ UNCHANGED <<JOBS, JOB_DETAILS, clock, cfg, threads, submitted, polls>>

NextNet ==
    \/ StdioRequest
    \/ FastMcpRequest

SpecNet == Init /\ [][NextNet]_vars

-----------------------------------------------------------------------------
(* The stdio loop of pbcs_copilot_mcp.py: main() reads one line at a time   *)
(* and answers it.  A line is blank, text that is not JSON, or a JSON       *)
(* value; `shape` is the kind of that value, `pshape` and `ashape` the kind *)
(* of its "params" and "arguments" members: "absent", "object", "array" (a  *)
(* non-empty array) or "empty" (an empty array, which is false in Python).  *)
(* `nshape` is the kind of params["name"]: "absent", "string" or "array"    *)
(* (a JSON array or object, which Python cannot hash).                      *)

TOOLS ==
    {"planning_discover_versions", "planning_list_job_definitions", "planning_execute_job",
     "planning_get_job_status", "planning_get_job_details"}

\* fn(cfg, args) for the function TOOLS maps the name to
CallTool(name, c, args, jobs, details, net, t, t2) ==
    CASE name = "planning_discover_versions" -> tool_discover_versions(c, args, jobs, details, net)
      [] name = "planning_list_job_definitions" ->
            tool_list_job_definitions(c, args, jobs, details, net)
      [] name = "planning_execute_job" ->
            tool_execute_job(c, args, jobs, details, net, t, t2)
      [] name = "planning_get_job_status" -> tool_get_job_status(c, args, jobs, details, net, t)
      [] name = "planning_get_job_details" -> tool_get_job_details(c, args, jobs, details, net)

\* fn(cfg, args) when args is not a dict: the first args.get raises.
\* check_client_key reads args only if a key is configured, and
\* tool_discover_versions reads them nowhere else.
CallShapeless(name, c, jobs, details, net, t) ==
    IF ~Truthy(c.client_api_key) /\ name = "planning_discover_versions"
    THEN tool_discover_versions(c, NoArgs, jobs, details, net)
    ELSE Local(Raised("AttributeError"), jobs, details)

\* the messages send() writes
ErrorMsg(id, text) == [id |-> id, kind |-> "error", body |-> Msg(text)]
ResultMsg(id, result) == [id |-> id, kind |-> "result", body |-> result]
ToolException(what) == [ok |-> FALSE, error |-> "TOOL_EXCEPTION", message |-> what]

\* One iteration of the loop: the messages written for the line, the
\* exception that left main() (NONE if none did), and the server's outcome
Iter(sent, crash, calls, out) == [sent |-> sent, crash |-> crash, calls |-> calls, out |-> out]
Answer(msg, jobs, details) == Iter(<<msg>>, NONE, 0, Out(jobs, details, NoResp))

main(line, c, jobs, details, net, t, t2) ==
    IF line.text = "blank" THEN Iter(<<>>, NONE, 0, Out(jobs, details, NoResp))
    ELSE IF line.text = "garbage"
    THEN Answer(ErrorMsg(NONE, "Invalid JSON"), jobs, details)
    ELSE IF line.shape # "object"
    THEN Iter(<<>>, "AttributeError", 0, Out(jobs, details, NoResp))
    ELSE IF line.method # "tools/call"
    THEN Answer(ErrorMsg(line.id, <<"Unsupported method: ", line.method>>), jobs, details)
    ELSE IF line.pshape = "array"
    THEN Iter(<<>>, "AttributeError", 0, Out(jobs, details, NoResp))
    ELSE IF line.pshape = "object" /\ line.nshape = "array"
    THEN \* TOOLS.get(tool_name), outside the try: unhashable type
         Iter(<<>>, "TypeError", 0, Out(jobs, details, NoResp))
    ELSE LET \* `req.get("params") or {}`, `params.get("arguments") or {}`
             tool_name == IF line.pshape = "object" THEN line.name ELSE NONE
             shapeless == line.pshape = "object" /\ line.ashape = "array"
             args == IF line.pshape = "object" /\ line.ashape = "object"
                     THEN line.args ELSE NoArgs
         IN  IF tool_name \notin TOOLS
             THEN Answer(ResultMsg(line.id, [ok |-> FALSE, error |-> "UNKNOWN_TOOL",
                                             tool |-> tool_name]),
                         jobs, details)
             ELSE LET r == IF shapeless
                           THEN CallShapeless(tool_name, c, jobs, details, net, t)
                           ELSE CallTool(tool_name, c, args, jobs, details, net, t, t2)
                      result == IF "raised" \in DOMAIN r.result
                                THEN ToolException(r.result.raised) ELSE r.result
                  IN  Iter(<<ResultMsg(line.id, result)>>, NONE, r.calls, r.out)

\* the lines a client may write
Blank ==
    [text |-> "blank", shape |-> "none", id |-> NONE, method |-> NONE, pshape |-> "absent",
     nshape |-> "absent", name |-> NONE, ashape |-> "absent", args |-> NoArgs]
Garbage == [Blank EXCEPT !.text = "garbage"]
NonObject(shape) == [Blank EXCEPT !.text = "json", !.shape = shape]
Request(method, pshape, name, ashape, args) ==
    [text |-> "json", shape |-> "object", id |-> "7", method |-> method, pshape |-> pshape,
     nshape |-> IF name = NONE THEN "absent" ELSE "string", name |-> name, ashape |-> ashape,
     args |-> args]
LoopArgs ==
    {[NoArgs EXCEPT !.client_api_key = key, !.job_type = "RULES", !.job_name = "Import_GL",
                    !.job_id = job_id, !.offset = offset] :
        key \in {NONE, "s3cret"}, job_id \in {NONE, new_job_id(ClockStart)},
        offset \in {QAbsent, QBad}}
Lines ==
    {Blank, Garbage, NonObject("array"), NonObject("null")}
        \cup {Request(m, "absent", NONE, "absent", NoArgs) : m \in {NONE, "tools/list", "tools/call"}}
        \cup {Request("tools/call", p, NONE, "absent", NoArgs) : p \in {"array", "empty"}}
        \cup {Request("tools/call", "object", n, a, NoArgs) :
                n \in TOOLS \cup {NONE, "nope"}, a \in {"absent", "array", "empty"}}
        \cup {Request("tools/call", "object", n, "object", x) :
                n \in TOOLS \cup {NONE, "nope"}, x \in LoopArgs}
        \cup {[Request("tools/call", "object", NONE, a, NoArgs) EXCEPT !.nshape = "array"] :
                a \in {"absent", "object"}}

\* main() is still in its loop: no exception has left it
Running == last.via = "stdio" => last.result.crash = NONE

\* what `last` remembers of an iteration: the line, the messages written
\* for it and the exception that ended main(), if any
Read(line, it) ==
    [Start EXCEPT !.op = "main", !.via = "stdio", !.body = line, !.calls = it.calls,
                  !.resp = it.out.resp, !.result = [sent |-> it.sent, crash |-> it.crash]]

ReadLine ==
    /\ Running
    /\ \E line \in Lines, net \in Nets, t2 \in Later :
        LET it == main(line, cfg, JOBS, JOB_DETAILS, net, clock, t2)
        IN  /\ it.out.resp.status = 201 => submitted < MaxSubmits
            /\ it.out.resp.status # 201 => t2 = clock
            /\ Commit(it.out)
            /\ last' = Read(line, it)
            /\ submitted' = IF it.out.resp.status = 201 THEN submitted + 1 ELSE submitted
            /\ clock' = t2
            /\ UNCHANGED <<cfg, threads, polls>>

NextLoop == ReadLine

SpecLoop == InitGw /\ [][NextLoop]_vars

-----------------------------------------------------------------------------
(* Vocabulary of the properties *)

Terminal(job) == job.status \in {"SUCCEEDED", "FAILED"}
HasEndTime(job) == "endTime" \in DOMAIN job
AuthSignal(h) == h.auth \in {"failure401", "Failure403"}
RateSignal(h) == h.rate = "429"
FailSignal(h) == h.fail = "TRUE"
ValidBody(b) == b.jobType \notin {NONE, ""} /\ b.jobName \notin {NONE, ""}

\* the step completes one request of the given kind: it is not the passing
\* of time (only a submission that returns 201 reads the clock a second
\* time and may see it advanced)
StepOf(op) == last'.op = op /\ (clock' = clock \/ submitted' # submitted)
\* ... and it was a job_status call for id that found the job
PollOf(id) == StepOf("job_status") /\ last'.job_id = id /\ last'.resp.status = 200
\* ... and it was a submission that returned 201
Created == StepOf("execute_job") /\ last'.resp.status = 201
TablesUnchanged == JOBS' = JOBS /\ JOB_DETAILS' = JOB_DETAILS
JobUnchanged(id) ==
    /\ id \in DOMAIN JOBS' /\ JOBS'[id] = JOBS[id]
    /\ id \in DOMAIN JOB_DETAILS' /\ JOB_DETAILS'[id] = JOB_DETAILS[id]

-----------------------------------------------------------------------------
\* C1: a poll without the failure signal moves a RUNNING job from p to
\* min(100, p + 35), p being 0, 35 or 70; the poll that reaches 100 makes the
\* job SUCCEEDED, sets endTime and appends exactly one INFO entry, a poll
\* that stays below 100 leaves status and log alone; a poll of a terminal job
\* returns the stored record and changes neither the job nor its log.
C1_Step(id) ==
    LET job == JOBS[id]
        new == JOBS'[id]
        p == job.percentComplete
    IN  IF job.status = "RUNNING"
        THEN /\ p \in {0, 35, 70}
             /\ new.percentComplete = (IF p + 35 > 100 THEN 100 ELSE p + 35)
             /\ last'.resp.body = new
             /\ IF new.percentComplete = 100
                THEN /\ new.status = "SUCCEEDED" /\ new.descriptiveStatus = "SUCCEEDED"
                     /\ HasEndTime(new)
                     /\ JOB_DETAILS'[id] = Append(JOB_DETAILS[id], DoneEntry)
                     /\ DoneEntry.severity = "INFO"
                ELSE /\ new.status = "RUNNING" /\ ~HasEndTime(new)
                     /\ JOB_DETAILS'[id] = JOB_DETAILS[id]
        ELSE /\ JobUnchanged(id)
             /\ last'.resp.body = job

C1_PollProgress ==
    [][\A id \in DOMAIN JOBS : (PollOf(id) /\ ~FailSignal(last'.h)) => C1_Step(id)]_vars

C1_Witness ==
    /\ last.op = "job_status" /\ last.resp.status = 200 /\ ~FailSignal(last.h)
    /\ last.job_id \in DOMAIN JOBS
    /\ JOBS[last.job_id].status = "SUCCEEDED"
    /\ JOBS[last.job_id].percentComplete = 100
    /\ Len(JOB_DETAILS[last.job_id]) = 3

\* C2: a poll carrying the failure signal moves a RUNNING job to FAILED, with
\* endTime set and exactly one ERROR entry appended, exactly when the
\* percentage after the poll's increment is >= 70 (also when it is 100);
\* below 70 the job stays RUNNING; a job becomes FAILED in no other way, and a
\* poll of a terminal job changes nothing.
C2_Step(id) ==
    LET job == JOBS[id]
        new == JOBS'[id]
        p == IF job.percentComplete + 35 > 100 THEN 100 ELSE job.percentComplete + 35
    IN  /\ (job.status = "RUNNING" /\ FailSignal(last'.h)) =>
              /\ new.percentComplete = p
              /\ IF p >= 70
                 THEN /\ new.status = "FAILED" /\ new.descriptiveStatus = "FAILED"
                      /\ HasEndTime(new)
                      /\ JOB_DETAILS'[id] = Append(JOB_DETAILS[id], FailEntry)
                      /\ FailEntry.severity = "ERROR"
                 ELSE /\ new.status = "RUNNING"
                      /\ JOB_DETAILS'[id] = JOB_DETAILS[id]
        /\ (job.status = "RUNNING" /\ new.status = "FAILED") => FailSignal(last'.h) /\ p >= 70
        /\ job.status # "RUNNING" => JobUnchanged(id)

C2_FailureRule ==
    [][\A id \in DOMAIN JOBS : PollOf(id) => C2_Step(id)]_vars

C2_Witness ==
    /\ last.op = "job_status" /\ last.resp.status = 200 /\ FailSignal(last.h)
    /\ last.job_id \in DOMAIN JOBS
    /\ JOBS[last.job_id].status = "FAILED"
    /\ JOBS[last.job_id].percentComplete = 100
    /\ Len(JOB_DETAILS[last.job_id]) = 3

\* C3: a submission with non-empty jobType and jobName and neither the
\* auth-denial nor the rate-limit signal returns 201 with the job's id and
\* status RUNNING, and stores under that id a RUNNING job at 0 percent with no
\* endTime and a log of exactly two entries.
C3_ValidSubmit ==
    [][(StepOf("execute_job") /\ ValidBody(last'.body)
            /\ ~AuthSignal(last'.h) /\ ~RateSignal(last'.h)) =>
         /\ last'.resp.status = 201
         /\ last'.resp.body.status = "RUNNING"
         /\ LET id == last'.resp.body.jobId
            IN  /\ id \in DOMAIN JOBS' /\ id \in DOMAIN JOB_DETAILS'
                /\ JOBS'[id].jobId = id
                /\ JOBS'[id].status = "RUNNING"
                /\ JOBS'[id].descriptiveStatus = "RUNNING"
                /\ JOBS'[id].percentComplete = 0
                /\ ~HasEndTime(JOBS'[id])
                /\ Len(JOB_DETAILS'[id]) = 2]_vars

C3_Witness ==
    /\ last.op = "execute_job" /\ last.resp.status = 201 /\ ValidBody(last.body)
    /\ last.resp.body.jobId \in DOMAIN JOBS
    /\ JOBS[last.resp.body.jobId].percentComplete = 0

\* C4: once a job is SUCCEEDED or FAILED, no later job_status call (with or
\* without the failure signal), job_details call, denied call or failed call
\* changes its record or its log: every step other than a submission that
\* returns 201 leaves a terminal job exactly as it was, so the job has made its
\* only terminal transition.
C4_TerminalAbsorbing ==
    [][\A id \in DOMAIN JOBS :
         (Terminal(JOBS[id]) /\ ~Created) => JobUnchanged(id)]_vars

C4_Witness ==
    /\ last.op = "job_status" /\ last.resp.status = 200 /\ FailSignal(last.h)
    /\ last.job_id \in DOMAIN JOBS
    /\ JOBS[last.job_id].status = "SUCCEEDED"

\* C6: every submission that returns 201 returns an id that was not in the
\* store before, so the number of stored jobs equals the number of successful
\* submissions.
C6_FreshJobId ==
    [][Created =>
         /\ last'.resp.body.jobId \notin DOMAIN JOBS
         /\ Cardinality(DOMAIN JOBS') = submitted']_vars

\* C8: whatever the operation and its other inputs, the 401 signal yields
\* status 401 and the 403 signal status 403, and the job table and the log
\* table are left as they were.
C8_AuthGate ==
    [][\A op \in {"versions", "jobdefinitions", "execute_job", "job_status", "job_details"} :
         (StepOf(op) /\ AuthSignal(last'.h)) =>
            /\ last'.resp.status = (IF last'.h.auth = "failure401" THEN 401 ELSE 403)
            /\ last'.resp.json
            /\ TablesUnchanged]_vars

C8_Witness ==
    /\ last.op = "job_status" /\ last.h.auth = "Failure403" /\ last.resp.status = 403
    /\ FailSignal(last.h)
    /\ last.job_id \in DOMAIN JOBS
    /\ JOBS[last.job_id].status = "RUNNING"
    /\ JOBS[last.job_id].percentComplete = 70

\* C9: a submission that passes the auth gate fails with 400 when jobType or
\* jobName is empty or missing, and with 429 when it is well-formed and carries
\* the rate-limit signal; neither creates a job or a log, and the set of stored
\* job ids changes only in a submission that returns 201.
C9_SubmitFailures ==
    [][/\ (StepOf("execute_job") /\ ~AuthSignal(last'.h)) =>
            /\ ~ValidBody(last'.body) => (last'.resp.status = 400 /\ TablesUnchanged)
            /\ (ValidBody(last'.body) /\ RateSignal(last'.h)) =>
                   (last'.resp.status = 429 /\ TablesUnchanged)
            /\ RateSignal(last'.h) => last'.resp.status \in {400, 429}
       /\ (DOMAIN JOBS' # DOMAIN JOBS \/ DOMAIN JOB_DETAILS' # DOMAIN JOB_DETAILS) => Created]_vars

C9_Witness ==
    /\ last.op = "execute_job" /\ last.resp.status = 429 /\ ValidBody(last.body)
    /\ DOMAIN JOBS # {}

\* C10: job_status and job_details for an id that no successful submission
\* returned answer 404 with a JSON body (also when the other arguments are
\* malformed) and leave both tables as they were.
C10_UnknownJob ==
    [][\A op \in {"job_status", "job_details"} :
         (StepOf(op) /\ ~AuthSignal(last'.h) /\ last'.job_id \notin DOMAIN JOBS) =>
            /\ last'.resp = Resp(404, Msg("Job not found"))
            /\ TablesUnchanged]_vars

C10_Witness ==
    /\ last.op = "job_details" /\ last.resp.status = 404
    /\ last.job_id \notin DOMAIN JOBS
    /\ DOMAIN JOBS # {}

\* C7: with a non-empty configured credential, a tool call whose credential is
\* absent or different returns UNAUTHORIZED_CLIENT, issues no remote call and
\* leaves the server's tables alone, whatever its other arguments; a call with
\* the matching credential is not refused: it issues its remote call unless
\* its own arguments are missing or malformed.
ToolNames ==
    {"tool_discover_versions", "tool_list_job_definitions", "tool_execute_job",
     "tool_get_job_status", "tool_get_job_details"}

C7_ClientCredential ==
    [][\A op \in ToolNames :
         (StepOf(op) /\ cfg.client_api_key \notin {NONE, ""}) =>
            IF last'.args.client_api_key = cfg.client_api_key
            THEN /\ Get(last'.result, "error") # "UNAUTHORIZED_CLIENT"
                 /\ last'.calls = 1 \/ Get(last'.result, "error") = "BAD_ARGUMENTS"
                       \/ "raised" \in DOMAIN last'.result
            ELSE /\ last'.result = Unauthorized
                 /\ last'.calls = 0
                 /\ TablesUnchanged]_vars

C7_Witness ==
    /\ last.op = "tool_execute_job" /\ cfg.client_api_key = "s3cret"
    /\ last.args.client_api_key = NONE
    /\ last.args.job_type = "RULES" /\ last.args.job_name = "Import_GL"
    /\ last.result = Unauthorized /\ last.calls = 0
    /\ DOMAIN JOBS # {}

\* C5: when no poll is in progress, every job's record and log are what some
\* serial order of the polls started on it produces from the record and log
\* it was created with (the moment of the terminal transition aside).
FailH == [auth |-> NONE, rate |-> NONE, fail |-> "TRUE"]
RECURSIVE SerialOutcomes(_, _, _, _)
SerialOutcomes(job, log, f, n) ==
    IF f = 0 /\ n = 0 THEN {<<job, log>>}
    ELSE (IF f = 0 THEN {}
          ELSE LET a == Advance(job, log, FailH, ClockStart)
               IN  SerialOutcomes(a[1], a[2], f - 1, n))
         \cup
         (IF n = 0 THEN {}
          ELSE LET a == Advance(job, log, NoHeaders, ClockStart)
               IN  SerialOutcomes(a[1], a[2], f, n - 1))

Observed(job, log) ==
    <<job.status, job.descriptiveStatus, job.percentComplete, HasEndTime(job), log>>

C5_PollsSerialize ==
    Quiescent =>
        \A id \in DOMAIN polls :
            Observed(JOBS[id], JOB_DETAILS[id]) \in
                {Observed(o[1], o[2]) :
                    o \in SerialOutcomes(polls[id].job, polls[id].log, polls[id].f, polls[id].n)}

-----------------------------------------------------------------------------
\* the offset and limit the last details request asked for (absent: 0, 200)
AskedOffset == IntOf(last.args.offset, 0)
AskedLimit == IntOf(last.args.limit, DefaultLimit)
\* the log of the job the last request named
AskedLog == JOB_DETAILS[last.job_id]
\* the entries of a log at positions off .. off + lim - 1, counted from 0
Positions(log, off, lim) == {i \in 1 .. Len(log) : off < i /\ i <= off + lim}
EntriesAt(log, off, lim) ==
    [k \in 1 .. Cardinality(Positions(log, off, lim)) |-> log[off + k]]

\* C11: for an existing job and every non-negative offset and limit (an
\* absent one counts as its default, 0 or 200) job_details answers 200 with
\* exactly the log entries at positions offset .. offset + limit - 1 in
\* insertion order, their number as count, the offset and limit it was
\* asked for, and hasMore = (offset + limit) < length of the log.
C11_Pagination ==
    (last.op = "job_details" /\ AskedOffset >= 0 /\ AskedLimit >= 0) =>
        /\ last.resp.status = 200
        /\ last.resp.body.items = EntriesAt(AskedLog, AskedOffset, AskedLimit)
        /\ last.resp.body.count = Len(last.resp.body.items)
        /\ last.resp.body.offset = AskedOffset
        /\ last.resp.body.limit = AskedLimit
        /\ last.resp.body.hasMore = (AskedOffset + AskedLimit < Len(AskedLog))

\* offset 0 and limit 2 on a job that was never polled: both entries, no more
C11_Witness ==
    /\ last.op = "job_details"
    /\ last.args.offset = QInt(0) /\ last.args.limit = QInt(2)
    /\ JOBS[last.job_id].percentComplete = 0
    /\ last.resp.body.items = NewLog(PageBody)
    /\ last.resp.body.hasMore = FALSE

\* C12: for an existing job, a details request whose offset is at or beyond
\* the end of the log answers 200 with an empty page and hasMore = FALSE,
\* whatever the limit: absent, positive, zero or negative.
C12_OutOfRange ==
    (last.op = "job_details" /\ AskedOffset >= Len(AskedLog)) =>
        /\ last.resp.status = 200
        /\ last.resp.body.items = <<>>
        /\ last.resp.body.hasMore = FALSE

-----------------------------------------------------------------------------
\* the outcome kinds of an outbound call
IsNetworkOrParseError(r) ==
    /\ DOMAIN r = {"ok", "error", "message", "url"}
    /\ r.ok = FALSE /\ r.error = "NETWORK_OR_PARSE_ERROR" /\ r.url = VersionsUrl
IsHttpError(r, code) ==
    /\ DOMAIN r = {"ok", "error", "status_code", "response"}
    /\ r.ok = FALSE /\ r.error = "HTTP_ERROR" /\ r.status_code = code
IsOk(r, code) ==
    /\ DOMAIN r = {"ok", "status_code", "response"}
    /\ r.ok = TRUE /\ r.status_code = code
\* the returned body: the parsed JSON, {} for an empty body, the raw text of
\* a body that is not JSON
Carries(r, resp) ==
    IF ~resp.content THEN r.response = EmptyDict
    ELSE IF resp.json THEN r.response = resp.body
    ELSE \E k \in DOMAIN r.response : r.response[k] = resp.body.message

\* C13: in both gateways the outbound call returns, for every outcome: a
\* NetworkOrParseError with the URL and a message when the transport fails
\* (connection error, timeout) or a body of a status below 300 is not JSON;
\* an HttpError with the status code and the body (parsed JSON, {} when
\* empty, the raw text when not JSON) for every status >= 300; ok with the
\* parsed JSON body ({} when empty) for a status below 300.
C13_Classification ==
    last.via = "gateway" =>
        IF last.resp = NoResp THEN IsNetworkOrParseError(last.result)
        ELSE IF last.resp.status >= HttpError
        THEN IsHttpError(last.result, last.resp.status) /\ Carries(last.result, last.resp)
        ELSE IF last.resp.content /\ ~last.resp.json
        THEN IsNetworkOrParseError(last.result)
        ELSE IsOk(last.result, last.resp.status) /\ Carries(last.result, last.resp)

-----------------------------------------------------------------------------
\* C14: every call of a gateway tool returns a value, whatever its arguments
\* (a missing, empty or non-numeric offset or limit included) and whatever
\* the transport does: a success, or a structured failure with ok = FALSE
\* and an error kind.  No tool function raises, in either gateway.
C14_ToolsReturn ==
    last.via \in {"tool", "fastmcp"} =>
        /\ "ok" \in DOMAIN last.result
        /\ last.result.ok = FALSE => "error" \in DOMAIN last.result

-----------------------------------------------------------------------------
\* the tool call lacks an argument it requires (absent or empty)
MissingRequired(op, args) ==
    \/ op = "tool_execute_job" /\ (~Truthy(args.job_type) \/ ~Truthy(args.job_name))
    \/ op \in {"tool_get_job_status", "tool_get_job_details"} /\ ~Truthy(args.job_id)

\* C15: a tool call that passes the credential check and lacks a required
\* argument (execute_job without job_type or job_name, get_job_status or
\* get_job_details without job_id) returns BAD_ARGUMENTS, issues no remote
\* call and leaves the server's tables unchanged.
C15_Step ==
    (/\ clock' = clock /\ last'.via = "tool"
     /\ ~check_client_key(cfg, last'.args)
     /\ MissingRequired(last'.op, last'.args)) =>
        /\ "error" \in DOMAIN last'.result
        /\ last'.result.ok = FALSE /\ last'.result.error = "BAD_ARGUMENTS"
        /\ last'.calls = 0
        /\ TablesUnchanged
C15_BadArguments == [][C15_Step]_vars

-----------------------------------------------------------------------------
\* the framing of the line is malformed: not JSON, JSON that is not an
\* object, an unsupported method, or params or arguments that are no object
Malformed(line) ==
    \/ line.text = "garbage"
    \/ line.shape # "object"
    \/ line.method # "tools/call"
    \/ line.pshape \in {"array", "empty"}
    \/ line.pshape = "object" /\ line.ashape \in {"array", "empty"}

\* C16: main() answers every non-empty line with exactly one message and
\* goes on reading: a protocol-level error for malformed framing, an
\* UNKNOWN_TOOL result for a well-framed call of a tool that does not exist,
\* and a result (TOOL_EXCEPTION when the tool raised) for a call of a tool.
\* No line makes main() end.
C16_OneResponse ==
    (last.via = "stdio" /\ last.body.text # "blank") =>
        /\ last.result.crash = NONE
        /\ Len(last.result.sent) = 1
        /\ LET msg == last.result.sent[1]
           IN  IF Malformed(last.body) THEN msg.kind = "error"
               ELSE /\ msg.kind = "result"
                    /\ last.body.name \notin TOOLS <=>
                           ("error" \in DOMAIN msg.body /\ msg.body.error = "UNKNOWN_TOOL")

-----------------------------------------------------------------------------
\* C17: every job's percentComplete is an integer in 0 .. 100, no step of
\* any operation lowers it, and a step changes it only if the job is RUNNING
\* before the step: once the job is terminal the value is frozen.
C17_Step ==
    \A id \in DOMAIN JOBS :
        /\ id \in DOMAIN JOBS'
        /\ JOBS'[id].percentComplete \in 0 .. PctCap
        /\ JOBS'[id].percentComplete >= JOBS[id].percentComplete
        /\ JOBS'[id].percentComplete # JOBS[id].percentComplete =>
               JOBS[id].status = "RUNNING"
C17_PercentMonotone == [][C17_Step]_vars

-----------------------------------------------------------------------------
\* C18: every job record that job_status returns to a caller has an endTime
\* exactly if its status is SUCCEEDED or FAILED, and its status equals its
\* descriptiveStatus; and no step removes or changes the endTime of a job
\* that has one.
C18_Step ==
    /\ (last'.op = "job_status" /\ last'.resp.status = 200) =>
           /\ last'.resp.body.status = last'.resp.body.descriptiveStatus
           /\ HasEndTime(last'.resp.body) <=> Terminal(last'.resp.body)
    /\ \A id \in DOMAIN JOBS :
           HasEndTime(JOBS[id]) =>
               /\ id \in DOMAIN JOBS' /\ HasEndTime(JOBS'[id])
               /\ JOBS'[id].endTime = JOBS[id].endTime
C18_EndTime == [][C18_Step]_vars

-----------------------------------------------------------------------------
IsPrefix(a, b) == Len(a) <= Len(b) /\ SubSeq(b, 1, Len(a)) = a

\* C19: no step of any operation removes, reorders or alters an entry of a
\* job's log (the log before the step is a prefix of the log after it); the
\* log of a RUNNING job has exactly 2 entries and the log of a terminal job
\* exactly 3, the third being an ERROR entry for FAILED and an INFO entry for
\* SUCCEEDED.
C19_Step ==
    \A id \in DOMAIN JOB_DETAILS :
        /\ id \in DOMAIN JOB_DETAILS' /\ id \in DOMAIN JOBS'
        /\ IsPrefix(JOB_DETAILS[id], JOB_DETAILS'[id])
        /\ LET job == JOBS'[id]
               log == JOB_DETAILS'[id]
           IN  /\ job.status = "RUNNING" => Len(log) = 2
               /\ Terminal(job) => Len(log) = 3
               /\ job.status = "FAILED" => log[3].severity = "ERROR"
               /\ job.status = "SUCCEEDED" => log[3].severity = "INFO"
C19_LogAppendOnly == [][C19_Step]_vars

\* C20: once its polls have completed, a job that was polled k times (polls
\* that found it) is terminal if k >= 3; polled without the failure signal
\* only, it is at min(100, 35 k) and terminal exactly from the 3rd poll on;
\* polled with the failure signal only, it is at min(70, 35 k) and terminal
\* exactly from the 2nd poll on.  A RUNNING job is at 0, 35 or 70, a
\* SUCCEEDED job at 100, a FAILED job at 70 or 100.
C20_PollCount ==
    Quiescent =>
        \A id \in DOMAIN polls :
            LET job == JOBS[id]
                f == polls[id].f
                n == polls[id].n
                pct == job.percentComplete
            IN  /\ f + n >= MaxPolls => Terminal(job)
                /\ f = 0 => (Terminal(job) <=> n >= 3) /\ pct = Min(PctCap, PctStep * n)
                /\ n = 0 => (Terminal(job) <=> f >= 2) /\ pct = Min(PctFail, PctStep * f)
                /\ job.status = "RUNNING" => pct \in {0, PctStep, PctFail}
                /\ job.status = "SUCCEEDED" => pct = PctCap
                /\ job.status = "FAILED" => pct \in {PctFail, PctCap}

-----------------------------------------------------------------------------
\* C21: a job's record and log change only through a job_status call that
\* finds that same job.  Every step that is not a submission returning 201
\* (a poll of another job, a poll that is denied or finds nothing, a
\* job_details call on any job, jobdefinitions, versions, a refused
\* submission) leaves every job record and every log as it was and adds or
\* removes no job; a poll of one job leaves every other job's record and log
\* as they were; and jobdefinitions keeps answering with the same catalog.
C21_Step ==
    /\ ~Created =>
           /\ DOMAIN JOBS' = DOMAIN JOBS /\ DOMAIN JOB_DETAILS' = DOMAIN JOB_DETAILS
           /\ \A id \in DOMAIN JOBS : PollOf(id) \/ JobUnchanged(id)
    /\ (last'.op = "jobdefinitions" /\ last'.resp.status = 200) =>
           last'.resp.body.items = JOB_DEFS
C21_Frame == [][C21_Step]_vars

\* a poll has moved one job while another job of the store is still as it
\* was submitted
C21_Witness ==
    /\ last.op = "job_status" /\ last.resp.status = 200
    /\ JOBS[last.job_id].percentComplete = PctStep
    /\ \E other \in DOMAIN JOBS \ {last.job_id} :
           /\ JOBS[other].percentComplete = 0
           /\ Len(JOB_DETAILS[other]) = 2

====
